---------------------------- MODULE Spec2Model ----------------------------
(***************************************************************************)
(* A model of the email extractor (extract.py, schemas.py): the port-name  *)
(* normalizer, the reference index builder, the country-aware resolver,    *)
(* the shipment post-processor and the batch loop around the upstream      *)
(* model call.                                                             *)
(*                                                                         *)
(* Python strings are modelled as sequences of one-character strings, so   *)
(* that split, strip, upper, sort and startswith are computed character by *)
(* character.  None and an absent dictionary key are the one-element       *)
(* sequences None and Missing, which no string equals.                     *)
(***************************************************************************)
EXTENDS Integers, Sequences, FiniteSets, TLC

VARIABLES
    \* normalize_port_name applied to two names
    nm_name, nm_other, nm_key, nm_other_key, nm_rekey,
    \* create_port_mapping: the rows consumed so far, its four dictionaries,
    \* and whether it is running, has returned or has raised
    port_codes_data, name_to_code, normalized_to_code,
    name_to_all_codes, normalized_to_all_codes, build_status,
    \* the latest call of find_port_code or post_process_result on the
    \* returned index: its arguments and its result
    call,
    \* main: the input emails, the number of emails finished (the loop's i),
    \* the state of
    \* process_email for the current one (upstream calls made, outcome of the
    \* latest, the JSON object it parsed), the accumulated results, the output
    \* file, and where main is
    emails, email_index, attempt, last_outcome, parsed, results, output_file, pc

normVars == << nm_name, nm_other, nm_key, nm_other_key, nm_rekey >>

buildVars == << port_codes_data, name_to_code, normalized_to_code,
                name_to_all_codes, normalized_to_all_codes, build_status >>

batchVars == << emails, email_index, attempt, last_outcome, parsed, results,
               output_file, pc >>

vars == << nm_name, nm_other, nm_key, nm_other_key, nm_rekey,
           port_codes_data, name_to_code, normalized_to_code,
           name_to_all_codes, normalized_to_all_codes, build_status,
           call,
           emails, email_index, attempt, last_outcome, parsed, results,
           output_file, pc >>

---------------------------------------------------------------------------
(* Values *)

None == << "None" >>

Missing == << "Missing" >>

Unset == << "Unset" >>

PyTrue == << "True" >>

PyFalse == << "False" >>

\* A JSON number.
JNum(n) == << "num", n >>

IsJNum(v) == Len(v) = 2 /\ v[1] = "num"

\* The characters names are written with: two letters in both cases' reach,
\* the blank, the part separator "/" and the key separator "|".
Chars == { "a", "A", "b", " ", "/", "|" }

MaxNameLen == 3

StringsUpTo(n) == UNION { [1..k -> Chars] : k \in 0..n }

Names == StringsUpTo(MaxNameLen)

---------------------------------------------------------------------------
(* Python str methods *)

LowerCase ==
    << "a", "b", "c", "d", "e", "f", "g", "h", "i", "j", "k", "l", "m",
       "n", "o", "p", "q", "r", "s", "t", "u", "v", "w", "x", "y", "z" >>

UpperCase ==
    << "A", "B", "C", "D", "E", "F", "G", "H", "I", "J", "K", "L", "M",
       "N", "O", "P", "Q", "R", "S", "T", "U", "V", "W", "X", "Y", "Z" >>

Digits == << "0", "1", "2", "3", "4", "5", "6", "7", "8", "9" >>

Punctuation == << " ", "-", "/", "|" >>

\* The position of c in the list, 0 when it is not there.
IndexIn(c, list) ==
    IF \E k \in 1..Len(list) : list[k] = c
    THEN CHOOSE k \in 1..Len(list) : list[k] = c
    ELSE 0

AllChars ==
    { LowerCase[k] : k \in 1..Len(LowerCase) } \cup
    { UpperCase[k] : k \in 1..Len(UpperCase) } \cup
    { Digits[k] : k \in 1..Len(Digits) } \cup
    { Punctuation[k] : k \in 1..Len(Punctuation) }

\* Code points (the order list.sort compares strings by).
OrdTable ==
    [c \in AllChars |->
        CASE c = " " -> 32
          [] c = "-" -> 45
          [] c = "/" -> 47
          [] c = "|" -> 124
          [] IndexIn(c, Digits) > 0 -> 47 + IndexIn(c, Digits)
          [] IndexIn(c, UpperCase) > 0 -> 64 + IndexIn(c, UpperCase)
          [] OTHER -> 96 + IndexIn(c, LowerCase)]

Ord(c) == OrdTable[c]

UpperTable ==
    [c \in AllChars |->
        IF IndexIn(c, LowerCase) > 0 THEN UpperCase[IndexIn(c, LowerCase)] ELSE c]

UpperChar(c) == IF c \in AllChars THEN UpperTable[c] ELSE c

\* str.upper()
Upper(s) == [i \in 1..Len(s) |-> UpperChar(s[i])]

IsSpace(c) == c = " "

RECURSIVE LStrip(_)
LStrip(s) ==
    IF s = << >> THEN << >>
    ELSE IF IsSpace(Head(s)) THEN LStrip(Tail(s))
    ELSE s

RECURSIVE RStrip(_)
RStrip(s) ==
    IF s = << >> THEN << >>
    ELSE IF IsSpace(s[Len(s)]) THEN RStrip(SubSeq(s, 1, Len(s) - 1))
    ELSE s

\* str.strip()
Strip(s) == RStrip(LStrip(s))

\* str.split(sep): the pieces between the separators, empty pieces kept.
RECURSIVE SplitFrom(_, _, _)
SplitFrom(s, sep, cur) ==
    IF s = << >> THEN << cur >>
    ELSE IF Head(s) = sep THEN << cur >> \o SplitFrom(Tail(s), sep, << >>)
    ELSE SplitFrom(Tail(s), sep, Append(cur, Head(s)))

Split(s, sep) == SplitFrom(s, sep, << >>)

\* sep.join(parts)
RECURSIVE Join(_, _)
Join(parts, sep) ==
    IF parts = << >> THEN << >>
    ELSE IF Len(parts) = 1 THEN parts[1]
    ELSE parts[1] \o << sep >> \o Join(Tail(parts), sep)

\* s < t in Python's string order
RECURSIVE StrLess(_, _)
StrLess(s, t) ==
    IF t = << >> THEN FALSE
    ELSE IF s = << >> THEN TRUE
    ELSE IF Ord(Head(s)) < Ord(Head(t)) THEN TRUE
    ELSE IF Ord(Head(s)) > Ord(Head(t)) THEN FALSE
    ELSE StrLess(Tail(s), Tail(t))

\* Insert p into an ascending list, after the elements not greater than it.
RECURSIVE InsertSorted(_, _)
InsertSorted(p, sorted) ==
    IF sorted = << >> THEN << p >>
    ELSE IF StrLess(p, Head(sorted)) THEN << p >> \o sorted
    ELSE << Head(sorted) >> \o InsertSorted(p, Tail(sorted))

\* list.sort()
RECURSIVE Sort(_)
Sort(parts) ==
    IF parts = << >> THEN << >>
    ELSE InsertSorted(parts[Len(parts)], Sort(SubSeq(parts, 1, Len(parts) - 1)))

\* str.startswith(prefix)
StartsWith(s, prefix) ==
    /\ Len(prefix) <= Len(s)
    /\ SubSeq(s, 1, Len(prefix)) = prefix

---------------------------------------------------------------------------
(* normalize_port_name *)

RECURSIVE SelectParts(_)
SelectParts(pieces) ==
    IF pieces = << >> THEN << >>
    ELSE IF Strip(Head(pieces)) # << >>
         THEN << Upper(Strip(Head(pieces))) >> \o SelectParts(Tail(pieces))
         ELSE SelectParts(Tail(pieces))

\* [p.strip().upper() for p in name.split("/") if p.strip()]
NameParts(name) == SelectParts(Split(name, "/"))

\* A normalizer that keeps the parts in the order they were written.
SortPartsUnsorted(parts) == parts

\* parts.sort()
SortParts(parts) == Sort(parts)

\* A join that ends every part, the last one too, with the separator.
JoinPartsTrailing(parts) ==
    IF parts = << >> THEN << >> ELSE Join(parts, "|") \o << "|" >>

\* "|".join(parts)
JoinParts(parts) == Join(parts, "|")

normalize_port_name(name) == JoinParts(SortParts(NameParts(name)))

---------------------------------------------------------------------------
(* Python dict and list operations *)

EmptyDict == [k \in {} |-> << >>]

\* d.get(k, default)
DictGet(d, k, default) == IF k \in DOMAIN d THEN d[k] ELSE default

\* d[k] = v
DictSet(d, k, v) == [x \in DOMAIN d \cup {k} |-> IF x = k THEN v ELSE d[x]]

\* x in list
InList(x, list) == \E i \in 1..Len(list) : list[i] = x

\* A registration that puts a new code in front of the list.
PrependIfAbsent(list, code) == IF InList(code, list) THEN list ELSE << code >> \o list

\* if code not in list: list.append(code)
AppendIfAbsent(list, code) == IF InList(code, list) THEN list ELSE Append(list, code)

\* if key not in d: d[key] = code
SetIfAbsent(d, key, code) == IF key \in DOMAIN d THEN d ELSE DictSet(d, key, code)

\* if key not in d: d[key] = []; if code not in d[key]: d[key].append(code)
RegisterCode(d, key, code) == DictSet(d, key, AppendIfAbsent(DictGet(d, key, << >>), code))

---------------------------------------------------------------------------
(* create_port_mapping *)

MaxRefs == 3

INM == << "I", "N", "M" >>

KRP == << "K", "R", "P" >>

\* The values a reference row holds under "code": two codes (one with a
\* trailing blank), a blank string, the JSON null, or no such key.
CodeVals == { INM, KRP \o << " " >>, << " " >>, None, Missing }

\* The values a reference row holds under "name".
NameVals == { << "a" >>, << "A", "/", "b" >>, << "b", " ", "/", " ", "a" >>,
              << "/" >>, << >>, None }

RefRows == [code : CodeVals, name : NameVals]

\* item.get(field, "")
ItemGet(item, field) == IF item[field] = Missing THEN << >> ELSE item[field]

\* item.get(field, "").strip() raises AttributeError on None
RowRaises(item) == ItemGet(item, "code") = None \/ ItemGet(item, "name") = None

RowCode(item) == Strip(ItemGet(item, "code"))

RowName(item) == Strip(ItemGet(item, "name"))

\* if not code or not name: continue
RowSkipped(item) == RowCode(item) = << >> \/ RowName(item) = << >>

\* An exact key that keeps the letter case of the reference name.
ExactKeyAsWritten(name) == name

\* The key of the exact-name dictionaries: upper_name = name.upper()
ExactKey(name) == Upper(name)

\* The four dictionaries as one value.
Index ==
    [name_to_code |-> name_to_code,
     normalized_to_code |-> normalized_to_code,
     name_to_all_codes |-> name_to_all_codes,
     normalized_to_all_codes |-> normalized_to_all_codes]

EmptyIndex ==
    [name_to_code |-> EmptyDict,
     normalized_to_code |-> EmptyDict,
     name_to_all_codes |-> EmptyDict,
     normalized_to_all_codes |-> EmptyDict]

\* A loop body that lists under a normalized key only the code of the first
\* row with that key.
IndexRowFirstNormalizedOnly(ix, item) ==
    LET code == RowCode(item)
        upper_name == ExactKey(RowName(item))
        normalized_name == normalize_port_name(RowName(item))
    IN  [name_to_code |-> SetIfAbsent(ix.name_to_code, upper_name, code),
         normalized_to_code |-> SetIfAbsent(ix.normalized_to_code, normalized_name, code),
         name_to_all_codes |-> RegisterCode(ix.name_to_all_codes, upper_name, code),
         normalized_to_all_codes |->
             SetIfAbsent(ix.normalized_to_all_codes, normalized_name, << code >>)]

\* The body of the loop for a row that is neither skipped nor raises.
IndexRow(ix, item) ==
    LET code == RowCode(item)
        upper_name == ExactKey(RowName(item))
        normalized_name == normalize_port_name(RowName(item))
    IN  [name_to_code |-> SetIfAbsent(ix.name_to_code, upper_name, code),
         normalized_to_code |-> SetIfAbsent(ix.normalized_to_code, normalized_name, code),
         name_to_all_codes |-> RegisterCode(ix.name_to_all_codes, upper_name, code),
         normalized_to_all_codes |->
             RegisterCode(ix.normalized_to_all_codes, normalized_name, code)]

\* The whole loop, for a list none of whose rows raises.
RECURSIVE create_port_mapping(_)
create_port_mapping(data) ==
    IF data = << >> THEN EmptyIndex
    ELSE LET ix == create_port_mapping(SubSeq(data, 1, Len(data) - 1))
             item == data[Len(data)]
         IN  IF RowSkipped(item) THEN ix ELSE IndexRow(ix, item)

InitBuild ==
    /\ port_codes_data = << >>
    /\ name_to_code = EmptyDict
    /\ normalized_to_code = EmptyDict
    /\ name_to_all_codes = EmptyDict
    /\ normalized_to_all_codes = EmptyDict
    /\ build_status = "running"

IdleNormalize ==
    /\ nm_name = << >>
    /\ nm_other = << >>
    /\ nm_key = Unset
    /\ nm_other_key = Unset
    /\ nm_rekey = Unset

NoCall == [op |-> "none"]

\* No JSON object has been parsed in the current attempt.
NoParsed == [id |-> Missing]

IdleCall == call = NoCall

\* main has not started.
IdleBatch ==
    /\ emails = << >>
    /\ email_index = 0
    /\ attempt = 0
    /\ last_outcome = "none"
    /\ parsed = NoParsed
    /\ results = << >>
    /\ output_file = [state |-> "absent", records |-> << >>]
    /\ pc = "idle"

\* One iteration of the loop over port_codes_data, on a row that raises.
BuildRaise(item) ==
    /\ build_status = "running"
    /\ Len(port_codes_data) < MaxRefs
    /\ RowRaises(item)
    /\ port_codes_data' = Append(port_codes_data, item)
    /\ build_status' = "raised"
    /\ UNCHANGED << name_to_code, normalized_to_code,
                    name_to_all_codes, normalized_to_all_codes >>
    /\ UNCHANGED << normVars, call, batchVars >>

\* One iteration on a row whose code or name is empty after stripping.
BuildSkip(item) ==
    /\ build_status = "running"
    /\ Len(port_codes_data) < MaxRefs
    /\ ~RowRaises(item)
    /\ RowSkipped(item)
    /\ port_codes_data' = Append(port_codes_data, item)
    /\ UNCHANGED << name_to_code, normalized_to_code,
                    name_to_all_codes, normalized_to_all_codes, build_status >>
    /\ UNCHANGED << normVars, call, batchVars >>

\* One iteration on a row that is indexed.
BuildRegister(item) ==
    /\ build_status = "running"
    /\ Len(port_codes_data) < MaxRefs
    /\ ~RowRaises(item)
    /\ ~RowSkipped(item)
    /\ port_codes_data' = Append(port_codes_data, item)
    /\ name_to_code' = IndexRow(Index, item).name_to_code
    /\ normalized_to_code' = IndexRow(Index, item).normalized_to_code
    /\ name_to_all_codes' = IndexRow(Index, item).name_to_all_codes
    /\ normalized_to_all_codes' = IndexRow(Index, item).normalized_to_all_codes
    /\ UNCHANGED build_status
    /\ UNCHANGED << normVars, call, batchVars >>

\* The list is exhausted: return the four dictionaries.
BuildReturn ==
    /\ build_status = "running"
    /\ build_status' = "returned"
    /\ UNCHANGED << port_codes_data, name_to_code, normalized_to_code,
                    name_to_all_codes, normalized_to_all_codes >>
    /\ UNCHANGED << normVars, call, batchVars >>

NextBuild ==
    \/ \E item \in RefRows : BuildRaise(item)
    \/ \E item \in RefRows : BuildSkip(item)
    \/ \E item \in RefRows : BuildRegister(item)
    \/ BuildReturn

InitSpecBuild == InitBuild /\ IdleNormalize /\ IdleCall /\ IdleBatch

SpecBuild == InitSpecBuild /\ [][NextBuild]_vars

---------------------------------------------------------------------------
(* The normalizer applied to two names *)

InitNormalize ==
    /\ nm_name \in Names
    /\ nm_other \in Names
    /\ nm_key = Unset
    /\ nm_other_key = Unset
    /\ nm_rekey = Unset
    /\ InitBuild
    /\ IdleCall
    /\ IdleBatch

Normalize ==
    /\ nm_key = Unset
    /\ LET key == normalize_port_name(nm_name)
       IN  /\ nm_key' = key
           /\ nm_rekey' = normalize_port_name(key)
    /\ nm_other_key' = normalize_port_name(nm_other)
    /\ UNCHANGED << nm_name, nm_other >>
    /\ UNCHANGED << buildVars, call, batchVars >>

NextNormalize == Normalize

SpecNormalize == InitNormalize /\ [][NextNormalize]_vars

---------------------------------------------------------------------------
(* find_port_code *)

\* Python truthiness of an Optional[str]: None and "" are false.
Truthy(v) == v # None /\ v # << >>

\* Candidates taken from the exact dictionary alone.
CandidateCodesExactOnly(port_name, exact, normalized) ==
    DictGet(exact, Upper(port_name), << >>)

\* codes = exact.get(upper_name, []); if not codes: codes = normalized.get(...)
CandidateCodes(port_name, exact, normalized) ==
    LET upper_name == Upper(port_name)
        normalized_name == normalize_port_name(port_name)
        codes == DictGet(exact, upper_name, << >>)
    IN  IF codes = << >> THEN DictGet(normalized, normalized_name, << >>) ELSE codes

\* [c for c in codes if c.startswith(country_prefix.upper())]
MatchingCodes(codes, country_prefix) ==
    SelectSeq(codes, LAMBDA c : StartsWith(c, Upper(country_prefix)))

\* A choice of the last matching code.
PreferredCodeLast(matching) == matching[Len(matching)]

\* return matching[0]
PreferredCode(matching) == matching[1]

find_port_code(port_name, exact, normalized, country_prefix) ==
    LET codes == CandidateCodes(port_name, exact, normalized)
    IN  IF codes = << >> THEN None
        ELSE IF Len(codes) = 1 THEN codes[1]
        ELSE IF Truthy(country_prefix) /\ MatchingCodes(codes, country_prefix) # << >>
             THEN PreferredCode(MatchingCodes(codes, country_prefix))
        ELSE codes[1]

---------------------------------------------------------------------------
(* post_process_result *)

IMPORT_LCL == << "pl_sea_import_lcl" >>

EXPORT_LCL == << "pl_sea_export_lcl" >>

FOB == << "F", "O", "B" >>

\* The country prefix of Indian port codes, "IN".
INDIA == << "I", "N" >>

\* The origin preference taken from the import direction.
OriginPrefixOfImport(result) == IF result.product_line = IMPORT_LCL THEN INDIA ELSE None

\* origin_prefix = "IN" if is_export_from_india else None
OriginPrefix(result) == IF result.product_line = EXPORT_LCL THEN INDIA ELSE None

\* dest_prefix = "IN" if is_import_to_india else None
DestPrefix(result) == IF result.product_line = IMPORT_LCL THEN INDIA ELSE None

\* A code field left as the upstream model gave it.
CodeWithoutNameKept(upstream_code) == upstream_code

\* else: result.origin_port_code = None (and the same for the destination)
CodeWithoutName(upstream_code) == None

\* A post-processor that builds a new record from the id, the product line
\* and the port names, and leaves the other fields at their defaults.
post_process_result_rebuilt(result, exact, normalized) ==
    [id |-> result.id,
     product_line |-> result.product_line,
     origin_port_code |->
         IF Truthy(result.origin_port_name)
         THEN find_port_code(result.origin_port_name, exact, normalized,
                             OriginPrefix(result))
         ELSE None,
     origin_port_name |-> result.origin_port_name,
     destination_port_code |->
         IF Truthy(result.destination_port_name)
         THEN find_port_code(result.destination_port_name, exact, normalized,
                             DestPrefix(result))
         ELSE None,
     destination_port_name |-> result.destination_port_name,
     incoterm |-> None,
     cargo_weight_kg |-> None,
     cargo_cbm |-> None,
     is_dangerous |-> PyFalse]

post_process_result(result, exact, normalized) ==
    [result EXCEPT
        !.origin_port_code =
            IF Truthy(result.origin_port_name)
            THEN find_port_code(result.origin_port_name, exact, normalized,
                                OriginPrefix(result))
            ELSE CodeWithoutName(result.origin_port_code),
        !.destination_port_code =
            IF Truthy(result.destination_port_name)
            THEN find_port_code(result.destination_port_name, exact, normalized,
                                DestPrefix(result))
            ELSE CodeWithoutName(result.destination_port_code)]

---------------------------------------------------------------------------
(* Calls of find_port_code and post_process_result on a returned index *)

MaxPostRefs == 2

INX == << "I", "N", "X" >>

\* Reference rows that are indexed: codes of two countries, one of them in
\* lower case, under a plain name, a two-part name and a name of no part.
PostRefRows ==
    [code : { INM, INX, KRP, << "i", "n", "m" >> },
     name : { << "a" >>, << "b", " ", "/", " ", "a" >>, << "/" >> }]

PostRefLists == UNION { [1..n -> PostRefRows] : n \in 0..MaxPostRefs }

\* The port names looked up: the empty name, a name as indexed, the same
\* name with a blank, a two-part name in another order, an unknown name.
PortNames == { << >>, << "a" >>, << " ", "A" >>, << "a", "/", "b" >>, << "b" >> }

\* The country_prefix arguments: none, the empty string, two countries.
Prefixes == { None, << >>, INDIA, << "K", "R" >> }

ZZZ == << "Z", "Z", "Z" >>

\* Validated records as post_process_result receives them: the port codes
\* are whatever the upstream model suggested.
PostRecords ==
    [id : { << "E", "1" >> },
     product_line : { None, IMPORT_LCL, EXPORT_LCL },
     origin_port_code : { None, ZZZ },
     origin_port_name : PortNames \cup { None },
     destination_port_code : { None, ZZZ },
     destination_port_name : PortNames \cup { None },
     incoterm : { FOB },
     cargo_weight_kg : { JNum(12) },
     cargo_cbm : { JNum(7) },
     is_dangerous : { PyTrue }]

\* main after create_port_mapping has returned the index of a reference list.
InitSpecPost ==
    /\ port_codes_data \in PostRefLists
    /\ name_to_code = create_port_mapping(port_codes_data).name_to_code
    /\ normalized_to_code = create_port_mapping(port_codes_data).normalized_to_code
    /\ name_to_all_codes = create_port_mapping(port_codes_data).name_to_all_codes
    /\ normalized_to_all_codes =
           create_port_mapping(port_codes_data).normalized_to_all_codes
    /\ build_status = "returned"
    /\ IdleNormalize
    /\ IdleCall
    /\ IdleBatch

FindPortCode(port_name, country_prefix) ==
    /\ call = NoCall
    /\ call' = [op |-> "find_port_code",
                port_name |-> port_name,
                country_prefix |-> country_prefix,
                result |-> find_port_code(port_name, name_to_all_codes,
                                          normalized_to_all_codes, country_prefix)]
    /\ UNCHANGED << normVars, buildVars, batchVars >>

PostProcess(result) ==
    /\ call = NoCall
    /\ call' = [op |-> "post_process_result",
                before |-> result,
                after |-> post_process_result(result, name_to_all_codes,
                                              normalized_to_all_codes)]
    /\ UNCHANGED << normVars, buildVars, batchVars >>

\* The caller has taken the result; the next call can be made.
CallReturned ==
    /\ call # NoCall
    /\ call' = NoCall
    /\ UNCHANGED << normVars, buildVars, batchVars >>

NextPost ==
    \/ \E port_name \in PortNames, country_prefix \in Prefixes :
           FindPortCode(port_name, country_prefix)
    \/ \E result \in PostRecords : PostProcess(result)
    \/ CallReturned

SpecPost == InitSpecPost /\ [][NextPost]_vars

---------------------------------------------------------------------------
(* ExtractionResult: validation of the upstream model's JSON object *)

Incoterms ==
    { FOB, << "C", "I", "F" >>, << "C", "F", "R" >>, << "E", "X", "W" >>,
      << "D", "D", "P" >>, << "D", "A", "P" >>, << "F", "C", "A" >>,
      << "C", "P", "T" >>, << "C", "I", "P" >>, << "D", "P", "U" >> }

ProductLines == { IMPORT_LCL, EXPORT_LCL }

\* An absent key takes the field's default.
FieldOr(raw, field, default) == IF raw[field] = Missing THEN default ELSE raw[field]

\* A validator that leaves the letter case of the incoterm as it came.
normalize_incoterm_unchanged(v) == v

\* normalize_incoterm: if v: return v.upper(); return v
normalize_incoterm(v) == IF Truthy(v) THEN Upper(v) ELSE v

IsDigitString(s) ==
    /\ s # << >>
    /\ \A k \in 1..Len(s) : IndexIn(s[k], Digits) > 0

\* A string that parses as a float: digits, with an optional sign.
IsNumericString(s) ==
    \/ IsDigitString(s)
    \/ Len(s) >= 2 /\ s[1] = "-" /\ IsDigitString(Tail(s))

RECURSIVE NatOf(_)
NatOf(s) ==
    IF s = << >> THEN 0
    ELSE 10 * NatOf(SubSeq(s, 1, Len(s) - 1)) + (IndexIn(s[Len(s)], Digits) - 1)

NumberOf(s) == IF s[1] = "-" THEN 0 - NatOf(Tail(s)) ELSE NatOf(s)

\* Optional[float]: null, a number, or a string that parses as one.
FloatAccepted(v) == v = None \/ IsJNum(v) \/ IsNumericString(v)

FloatOf(v) == IF v = None \/ IsJNum(v) THEN v ELSE JNum(NumberOf(v))

\* Optional[str]: null or a string; a JSON number is not converted.
StrAccepted(v) == v = None \/ ~IsJNum(v)

\* Optional[Incoterm], after normalize_incoterm.
IncotermAccepted(v) == v = None \/ normalize_incoterm(v) \in Incoterms

\* Whether ExtractionResult(**parsed_data) raises ValidationError.
Accepted(parsed_data) ==
    /\ parsed_data.id \notin { None, Missing }
    /\ FieldOr(parsed_data, "product_line", None) \in ProductLines \cup { None }
    /\ StrAccepted(FieldOr(parsed_data, "origin_port_code", None))
    /\ StrAccepted(FieldOr(parsed_data, "origin_port_name", None))
    /\ StrAccepted(FieldOr(parsed_data, "destination_port_code", None))
    /\ StrAccepted(FieldOr(parsed_data, "destination_port_name", None))
    /\ IncotermAccepted(FieldOr(parsed_data, "incoterm", None))
    /\ FloatAccepted(FieldOr(parsed_data, "cargo_weight_kg", None))
    /\ FloatAccepted(FieldOr(parsed_data, "cargo_cbm", None))
    /\ FieldOr(parsed_data, "is_dangerous", PyFalse) \in { PyTrue, PyFalse }

\* The validated record.
ExtractionResult(parsed_data) ==
    [id |-> parsed_data.id,
     product_line |-> FieldOr(parsed_data, "product_line", None),
     origin_port_code |-> FieldOr(parsed_data, "origin_port_code", None),
     origin_port_name |-> FieldOr(parsed_data, "origin_port_name", None),
     destination_port_code |-> FieldOr(parsed_data, "destination_port_code", None),
     destination_port_name |-> FieldOr(parsed_data, "destination_port_name", None),
     incoterm |-> normalize_incoterm(FieldOr(parsed_data, "incoterm", None)),
     cargo_weight_kg |-> FloatOf(FieldOr(parsed_data, "cargo_weight_kg", None)),
     cargo_cbm |-> FloatOf(FieldOr(parsed_data, "cargo_cbm", None)),
     is_dangerous |-> FieldOr(parsed_data, "is_dangerous", PyFalse)]

---------------------------------------------------------------------------
(* process_email and the loop of main *)

MaxEmails == 2

\* The limit of the loop "for attempt in range(retries)" with one more turn.
retries_one_more == 3 + 1

retries == 3

E1 == << "E", "1" >>

E2 == << "E", "2" >>

\* Input emails: only the id matters to the program.
Emails == [id : { E1, E2, Missing }]

EmailLists == UNION { [1..n -> Emails] : n \in 0..MaxEmails }

\* email_data.get("id")
EmailId(email) == IF email.id = Missing THEN None ELSE email.id

\* The reference lists of the runs.
BatchRefLists ==
    { << >>,
      << [code |-> KRP, name |-> << "a" >>],
         [code |-> INM, name |-> << "a" >>],
         [code |-> KRP, name |-> << "b", " ", "/", " ", "a" >>] >> }

\* A JSON object of the upstream model with every field filled in.
FullOutput ==
    [product_line |-> EXPORT_LCL,
     origin_port_code |-> ZZZ,
     origin_port_name |-> << "a" >>,
     destination_port_code |-> Missing,
     destination_port_name |-> << "a", "/", "b" >>,
     incoterm |-> << "f", "o", "b" >>,
     cargo_weight_kg |-> JNum(12),
     cargo_cbm |-> << "7" >>,
     is_dangerous |-> PyTrue]

\* The JSON object {}.
EmptyOutput ==
    [product_line |-> Missing,
     origin_port_code |-> Missing,
     origin_port_name |-> Missing,
     destination_port_code |-> Missing,
     destination_port_name |-> Missing,
     incoterm |-> Missing,
     cargo_weight_kg |-> Missing,
     cargo_cbm |-> Missing,
     is_dangerous |-> Missing]

\* The JSON objects the upstream model answers with: acceptable ones, and
\* ones with a value outside an enum, an unparseable number, a null flag,
\* a number for a port name.
RawOutputs ==
    { FullOutput,
      EmptyOutput,
      [FullOutput EXCEPT !.product_line = IMPORT_LCL, !.cargo_weight_kg = JNum(-5)],
      [FullOutput EXCEPT !.product_line = << "pl_air" >>],
      [FullOutput EXCEPT !.incoterm = << "x", "y", "z" >>],
      [FullOutput EXCEPT !.cargo_weight_kg = << "a", "b" >>],
      [EmptyOutput EXCEPT !.is_dangerous = None],
      [EmptyOutput EXCEPT !.origin_port_name = JNum(5)] }

\* A parsed object that takes an id from the upstream model and not from
\* the email.
WithUpstreamId(raw, email_id) ==
    [id |-> << "E", "0" >>,
     product_line |-> raw.product_line,
     origin_port_code |-> raw.origin_port_code,
     origin_port_name |-> raw.origin_port_name,
     destination_port_code |-> raw.destination_port_code,
     destination_port_name |-> raw.destination_port_name,
     incoterm |-> raw.incoterm,
     cargo_weight_kg |-> raw.cargo_weight_kg,
     cargo_cbm |-> raw.cargo_cbm,
     is_dangerous |-> raw.is_dangerous]

\* parsed_data["id"] = email_id
WithId(raw, email_id) ==
    [id |-> email_id,
     product_line |-> raw.product_line,
     origin_port_code |-> raw.origin_port_code,
     origin_port_name |-> raw.origin_port_name,
     destination_port_code |-> raw.destination_port_code,
     destination_port_name |-> raw.destination_port_name,
     incoterm |-> raw.incoterm,
     cargo_weight_kg |-> raw.cargo_weight_kg,
     cargo_cbm |-> raw.cargo_cbm,
     is_dangerous |-> raw.is_dangerous]

\* A fallback that loses the id of the email.
FallbackRecordWithoutId(email) ==
    [id |-> None,
     product_line |-> None,
     origin_port_code |-> None,
     origin_port_name |-> None,
     destination_port_code |-> None,
     destination_port_name |-> None,
     incoterm |-> None,
     cargo_weight_kg |-> None,
     cargo_cbm |-> None,
     is_dangerous |-> PyFalse]

\* The record main appends when process_email returns None.
FallbackRecord(email) ==
    [id |-> EmailId(email),
     product_line |-> None,
     origin_port_code |-> None,
     origin_port_name |-> None,
     destination_port_code |-> None,
     destination_port_name |-> None,
     incoterm |-> None,
     cargo_weight_kg |-> None,
     cargo_cbm |-> None,
     is_dangerous |-> PyFalse]

\* The failures the retry loop sleeps on: RateLimitError, APITimeoutError.
TransientKinds == { "rate_limit", "timeout" }

\* The failures of one attempt that are not retried: json.JSONDecodeError,
\* and any other exception (another API error, a body that is no JSON
\* object, ...).
FatalKinds == { "json_decode_error", "exception" }

CurrentEmail == emails[email_index + 1]

NoFile == [state |-> "absent", records |-> << >>]

InitBatch ==
    /\ emails \in EmailLists
    /\ email_index = 0
    /\ attempt = 0
    /\ last_outcome = "none"
    /\ parsed = NoParsed
    /\ results = << >>
    /\ output_file = NoFile
    /\ pc = IF emails = << >> THEN "final_open" ELSE "call"

\* main before its loop: the index of the reference list has been built.
InitSpec ==
    /\ port_codes_data \in BatchRefLists
    /\ name_to_code = create_port_mapping(port_codes_data).name_to_code
    /\ normalized_to_code = create_port_mapping(port_codes_data).normalized_to_code
    /\ name_to_all_codes = create_port_mapping(port_codes_data).name_to_all_codes
    /\ normalized_to_all_codes =
           create_port_mapping(port_codes_data).normalized_to_all_codes
    /\ build_status = "returned"
    /\ IdleNormalize
    /\ IdleCall
    /\ InitBatch

\* One attempt that ends in RateLimitError or APITimeoutError: sleep and
\* try again, or, after the last attempt, return None; main then appends
\* the fallback record.
UpstreamTransient(kind) ==
    /\ pc = "call"
    /\ attempt < retries
    /\ attempt' = attempt + 1
    /\ last_outcome' = kind
    /\ parsed' = NoParsed
    /\ IF attempt + 1 < retries
       THEN UNCHANGED << results, pc >>
       ELSE /\ results' = Append(results, FallbackRecord(CurrentEmail))
            /\ pc' = "open"
    /\ UNCHANGED << emails, email_index, output_file >>
    /\ UNCHANGED << normVars, buildVars, call >>

\* One attempt that ends in JSONDecodeError or another exception:
\* process_email returns None and main appends the fallback record.
UpstreamFatal(kind) ==
    /\ pc = "call"
    /\ attempt < retries
    /\ attempt' = attempt + 1
    /\ last_outcome' = kind
    /\ parsed' = NoParsed
    /\ results' = Append(results, FallbackRecord(CurrentEmail))
    /\ pc' = "open"
    /\ UNCHANGED << emails, email_index, output_file >>
    /\ UNCHANGED << normVars, buildVars, call >>

\* One attempt that gets a JSON object the schema rejects: ValidationError,
\* process_email returns None and main appends the fallback record.
ResponseRejected(raw) ==
    /\ pc = "call"
    /\ attempt < retries
    /\ ~Accepted(WithId(raw, EmailId(CurrentEmail)))
    /\ attempt' = attempt + 1
    /\ last_outcome' = "validation_error"
    /\ parsed' = WithId(raw, EmailId(CurrentEmail))
    /\ results' = Append(results, FallbackRecord(CurrentEmail))
    /\ pc' = "open"
    /\ UNCHANGED << emails, email_index, output_file >>
    /\ UNCHANGED << normVars, buildVars, call >>

\* One attempt that gets a JSON object the schema accepts: the record is
\* post-processed, dumped and appended by main.
ResponseAccepted(raw) ==
    /\ pc = "call"
    /\ attempt < retries
    /\ Accepted(WithId(raw, EmailId(CurrentEmail)))
    /\ attempt' = attempt + 1
    /\ last_outcome' = "returned"
    /\ parsed' = WithId(raw, EmailId(CurrentEmail))
    /\ results' =
           Append(results,
                  post_process_result(ExtractionResult(WithId(raw, EmailId(CurrentEmail))),
                                      name_to_all_codes, normalized_to_all_codes))
    /\ pc' = "open"
    /\ UNCHANGED << emails, email_index, output_file >>
    /\ UNCHANGED << normVars, buildVars, call >>

\* open(OUTPUT_FILE, 'w') in the loop: the file is truncated.
OpenOutput ==
    /\ pc = "open"
    /\ output_file' = [state |-> "truncated", records |-> << >>]
    /\ pc' = "dump"
    /\ UNCHANGED << emails, email_index, attempt, last_outcome, parsed, results >>
    /\ UNCHANGED << normVars, buildVars, call >>

\* json.dump(results, f) in the loop, and on to the next email.
DumpOutput ==
    /\ pc = "dump"
    /\ output_file' = [state |-> "written", records |-> results]
    /\ email_index' = email_index + 1
    /\ attempt' = 0
    /\ last_outcome' = "none"
    /\ parsed' = NoParsed
    /\ pc' = IF email_index + 1 < Len(emails) THEN "call" ELSE "final_open"
    /\ UNCHANGED << emails, results >>
    /\ UNCHANGED << normVars, buildVars, call >>

\* open(OUTPUT_FILE, 'w') after the loop.
FinalOpen ==
    /\ pc = "final_open"
    /\ output_file' = [state |-> "truncated", records |-> << >>]
    /\ pc' = "final_dump"
    /\ UNCHANGED << emails, email_index, attempt, last_outcome, parsed, results >>
    /\ UNCHANGED << normVars, buildVars, call >>

\* json.dump(results, f) after the loop.
FinalDump ==
    /\ pc = "final_dump"
    /\ output_file' = [state |-> "written", records |-> results]
    /\ pc' = "done"
    /\ UNCHANGED << emails, email_index, attempt, last_outcome, parsed, results >>
    /\ UNCHANGED << normVars, buildVars, call >>

Next ==
    \/ \E kind \in TransientKinds : UpstreamTransient(kind)
    \/ \E kind \in FatalKinds : UpstreamFatal(kind)
    \/ \E raw \in RawOutputs : ResponseRejected(raw)
    \/ \E raw \in RawOutputs : ResponseAccepted(raw)
    \/ OpenOutput
    \/ DumpOutput
    \/ FinalOpen
    \/ FinalDump

Spec == InitSpec /\ [][Next]_vars

\* The process is killed (SIGKILL, power loss) at any point of main: the
\* output file stays as the last open or dump left it.
Kill ==
    /\ pc \in { "call", "open", "dump", "final_open", "final_dump" }
    /\ pc' = "killed"
    /\ UNCHANGED << emails, email_index, attempt, last_outcome, parsed, results,
                    output_file >>
    /\ UNCHANGED << normVars, buildVars, call >>

NextKill ==
    \/ \E kind \in TransientKinds : UpstreamTransient(kind)
    \/ \E kind \in FatalKinds : UpstreamFatal(kind)
    \/ \E raw \in RawOutputs : ResponseRejected(raw)
    \/ \E raw \in RawOutputs : ResponseAccepted(raw)
    \/ OpenOutput
    \/ DumpOutput
    \/ FinalOpen
    \/ FinalDump
    \/ Kill

\* The runs of main that may be killed.
SpecKill == InitSpec /\ [][NextKill]_vars

\* The runs of main in which the process keeps running: every upstream call
\* returns or fails (the client has a timeout), every sleep and write ends.
SpecFair == InitSpec /\ [][Next]_vars /\ WF_vars(Next)

---------------------------------------------------------------------------
(* Properties of normalize_port_name (SpecNormalize) *)

Occurrences(parts, p) == Cardinality({ i \in 1..Len(parts) : parts[i] = p })

\* The two lists hold the same parts the same number of times.
SameParts(ps, qs) ==
    /\ Len(ps) = Len(qs)
    /\ \A i \in 1..Len(ps) : Occurrences(ps, ps[i]) = Occurrences(qs, ps[i])

\* C6: normalize is idempotent: the key of a key is that key.
C6_NormalizeIdempotent ==
    nm_key # Unset => nm_rekey = nm_key

\* C6 witness: a name of two parts written out of order has been normalized
\* twice.
C6_Witness ==
    /\ nm_rekey # Unset
    /\ Len(NameParts(nm_name)) >= 2
    /\ NameParts(nm_name) # Sort(NameParts(nm_name))
    /\ nm_key # nm_name

\* C7: two names with the same trimmed, uppercased, non-empty parts (as a
\* multiset) get the same key, whatever the order, case, blanks and empty
\* parts they were written with; and the empty name gets the empty key.
C7_NormalizeOrderCaseBlankIndependent ==
    nm_key # Unset =>
        /\ SameParts(NameParts(nm_name), NameParts(nm_other)) => nm_key = nm_other_key
        /\ nm_name = << >> => nm_key = << >>

\* C7 witness: two different names whose parts are the same but written in
\* a different order have been normalized.
C7_Witness ==
    /\ nm_key # Unset
    /\ nm_name # nm_other
    /\ Len(NameParts(nm_name)) >= 2
    /\ NameParts(nm_name) # NameParts(nm_other)
    /\ SameParts(NameParts(nm_name), NameParts(nm_other))

---------------------------------------------------------------------------
(* Properties of create_port_mapping (SpecBuild) *)

\* A row with a non-empty code and a non-empty name.
RowIndexed(item) == ~RowRaises(item) /\ ~RowSkipped(item)

ConsumedRows == { port_codes_data[i] : i \in 1..Len(port_codes_data) }

\* C1 as stated: every consumed row with a code and a name has its code
\* under each uppercased "/"-part of its name in the exact index.
C1_CodeUnderEveryPart ==
    \A item \in ConsumedRows :
        RowIndexed(item) =>
            \A i \in 1..Len(NameParts(RowName(item))) :
                InList(RowCode(item),
                       DictGet(name_to_all_codes, NameParts(RowName(item))[i], << >>))

\* C1 amended: every consumed row with a code and a name has its code under
\* its whole trimmed, uppercased name in the exact index, and under each
\* part when the name is that one part.
C1_CodeUnderWholeName ==
    \A item \in ConsumedRows :
        RowIndexed(item) =>
            /\ InList(RowCode(item),
                      DictGet(name_to_all_codes, Upper(RowName(item)), << >>))
            /\ NameParts(RowName(item)) = << Upper(RowName(item)) >> =>
                   \A i \in 1..Len(NameParts(RowName(item))) :
                       InList(RowCode(item),
                              DictGet(name_to_all_codes,
                                      NameParts(RowName(item))[i], << >>))

\* C1 witness: the builder has returned after indexing a row whose name
\* has two parts and a row whose lower-case name is a single part.
C1_Witness ==
    /\ build_status = "returned"
    /\ \E item \in ConsumedRows :
           RowIndexed(item) /\ Len(NameParts(RowName(item))) >= 2
    /\ \E item \in ConsumedRows :
           /\ RowIndexed(item)
           /\ NameParts(RowName(item)) = << Upper(RowName(item)) >>
           /\ RowName(item) # Upper(RowName(item))

\* The rows of the valid subset, in order.
ValidSubset(data) == SelectSeq(data, RowIndexed)

\* C10 as stated: the builder never raises, and what it has built is the
\* index of the valid rows consumed so far, the malformed ones skipped.
C10_MalformedRowsSkipped ==
    /\ build_status # "raised"
    /\ Index = create_port_mapping(ValidSubset(port_codes_data))

---------------------------------------------------------------------------
(* Properties of find_port_code and post_process_result (SpecPost) *)

\* The candidates of the latest find_port_code call.
CallCandidates ==
    CandidateCodes(call.port_name, name_to_all_codes, normalized_to_all_codes)

\* The positions of the candidates that start with the given prefix.
PrefixedPositions(codes, prefix) ==
    { i \in 1..Len(codes) : prefix # None /\ StartsWith(codes[i], prefix) }

Least(S) == CHOOSE i \in S : \A j \in S : i <= j

\* C2: with two or more candidates the result is the first candidate that
\* starts with the preferred prefix, when a prefix is given and some
\* candidate starts with it, and the first candidate otherwise.
C2_FirstPreferredElseFirst ==
    (call.op = "find_port_code" /\ Len(CallCandidates) >= 2) =>
        IF PrefixedPositions(CallCandidates, call.country_prefix) # {}
        THEN call.result =
                 CallCandidates[Least(PrefixedPositions(CallCandidates,
                                                        call.country_prefix))]
        ELSE call.result = CallCandidates[1]

\* C2 witness: among two candidates the second one, the only one with the
\* preferred prefix, was returned.
C2_Witness ==
    /\ call.op = "find_port_code"
    /\ Len(CallCandidates) >= 2
    /\ call.country_prefix = INDIA
    /\ CallCandidates[1] = KRP
    /\ call.result = CallCandidates[2]
    /\ StartsWith(call.result, INDIA)

\* C3: the result is null exactly for a name absent from both indexes; a
\* name in the exact index gets one of the codes listed there, and any other
\* name one of the codes listed under its normalized key.
C3_NullExactlyWhenAbsent ==
    call.op = "find_port_code" =>
        LET upper_name == Upper(call.port_name)
            normalized_name == normalize_port_name(call.port_name)
            in_exact == upper_name \in DOMAIN name_to_all_codes
            in_normalized == normalized_name \in DOMAIN normalized_to_all_codes
        IN  /\ (~in_exact /\ ~in_normalized) => call.result = None
            /\ in_exact =>
                   /\ call.result # None
                   /\ InList(call.result, name_to_all_codes[upper_name])
            /\ (~in_exact /\ in_normalized) =>
                   /\ call.result # None
                   /\ InList(call.result, normalized_to_all_codes[normalized_name])

\* C3 witness: a name missing from the exact index was found under its
\* normalized key.
C3_Witness ==
    /\ call.op = "find_port_code"
    /\ Truthy(call.port_name)
    /\ Upper(call.port_name) \notin DOMAIN name_to_all_codes
    /\ normalize_port_name(call.port_name) \in DOMAIN normalized_to_all_codes
    /\ call.result # None

\* What a port-code field holds after post-processing a named port.
Resolved(port_name, prefix) ==
    find_port_code(port_name, name_to_all_codes, normalized_to_all_codes, prefix)

\* C4: the preference comes from product_line alone: an export record has
\* its origin resolved with "IN" and its destination with no prefix, an
\* import record its destination with "IN" and its origin with no prefix,
\* a record without product_line both with no prefix.  With the reference
\* list [INM "a", KRP "b / a"] an import record "a/b" -> "a" ends with
\* origin KRP and destination INM.
C4_PrefixFromProductLine ==
    call.op = "post_process_result" =>
        LET before == call.before
            after == call.after
            origin_prefix == IF before.product_line = EXPORT_LCL THEN INDIA ELSE None
            dest_prefix == IF before.product_line = IMPORT_LCL THEN INDIA ELSE None
        IN  /\ Truthy(before.origin_port_name) =>
                   after.origin_port_code =
                       Resolved(before.origin_port_name, origin_prefix)
            /\ Truthy(before.destination_port_name) =>
                   after.destination_port_code =
                       Resolved(before.destination_port_name, dest_prefix)
            /\ ( /\ port_codes_data =
                        << [code |-> INM, name |-> << "a" >>],
                           [code |-> KRP, name |-> << "b", " ", "/", " ", "a" >>] >>
                  /\ before.product_line = IMPORT_LCL
                  /\ before.origin_port_name = << "a", "/", "b" >>
                  /\ before.destination_port_name = << "a" >> ) =>
                   /\ after.origin_port_code = KRP
                   /\ after.destination_port_code = INM

\* C4 witness: an export record whose origin and destination have the same
\* two candidates got the Indian one as origin and the first one, of
\* another country, as destination.
C4_Witness ==
    /\ call.op = "post_process_result"
    /\ call.before.product_line = EXPORT_LCL
    /\ call.before.origin_port_name = call.before.destination_port_name
    /\ Truthy(call.before.origin_port_name)
    /\ StartsWith(call.after.origin_port_code, INDIA)
    /\ call.after.destination_port_code = KRP

\* C5 as stated: a code field is null when its name is null and otherwise
\* the code its name resolves to, whatever the field held before.
C5_CodeNullOnlyForNullName ==
    call.op = "post_process_result" =>
        /\ call.after.origin_port_code =
               IF call.before.origin_port_name = None THEN None
               ELSE Resolved(call.before.origin_port_name, OriginPrefix(call.before))
        /\ call.after.destination_port_code =
               IF call.before.destination_port_name = None THEN None
               ELSE Resolved(call.before.destination_port_name, DestPrefix(call.before))

\* C5 amended: a code field is null when its name is null or the empty
\* string and otherwise the code its name resolves to, whatever the field
\* held before.
C5_CodeDerivedFromName ==
    call.op = "post_process_result" =>
        /\ call.after.origin_port_code =
               IF call.before.origin_port_name \in { None, << >> } THEN None
               ELSE Resolved(call.before.origin_port_name, OriginPrefix(call.before))
        /\ call.after.destination_port_code =
               IF call.before.destination_port_name \in { None, << >> } THEN None
               ELSE Resolved(call.before.destination_port_name, DestPrefix(call.before))

\* C5 witness: a record that came with upstream codes in both fields has
\* lost the one whose name is null and had the other replaced by the code
\* of its name.
C5_Witness ==
    /\ call.op = "post_process_result"
    /\ call.before.origin_port_code = ZZZ
    /\ call.before.origin_port_name = None
    /\ call.after.origin_port_code = None
    /\ call.before.destination_port_code = ZZZ
    /\ Truthy(call.before.destination_port_name)
    /\ call.after.destination_port_code \notin { None, ZZZ }

---------------------------------------------------------------------------
(* Properties of process_email and the loop of main (Spec) *)

\* The placeholder record of an email.
Placeholder(email) ==
    [id |-> IF email.id = Missing THEN None ELSE email.id,
     product_line |-> None,
     origin_port_code |-> None,
     origin_port_name |-> None,
     destination_port_code |-> None,
     destination_port_name |-> None,
     incoterm |-> None,
     cargo_weight_kg |-> None,
     cargo_cbm |-> None,
     is_dangerous |-> PyFalse]

\* The latest attempt for the current email was a record-level failure:
\* a failure that is not transient, or the third transient one.
RecordFailed ==
    \/ last_outcome \in { "validation_error", "json_decode_error", "exception" }
    \/ last_outcome \in { "rate_limit", "timeout" } /\ attempt = 3

\* The current email has been given up: its placeholder is the last of the
\* results, one per email so far, and main is about to write them out.
GivenUpWithPlaceholder ==
    /\ pc \in { "open", "dump" }
    /\ email_index < Len(emails)
    /\ Len(results) = email_index + 1
    /\ results[email_index + 1] = Placeholder(emails[email_index + 1])

\* After the write the loop is at the next email, or past the last one.
LoopGoesOn ==
    /\ email_index' = email_index + 1
    /\ results' = results
    /\ output_file'.records = results
    /\ pc' = IF email_index + 1 < Len(emails) THEN "call" ELSE "final_open"

\* C8: on every record-level failure of an email the output for it is the
\* placeholder with the email's id, all fields null and is_dangerous false,
\* and the loop goes on to the next email.
C8_FailureYieldsPlaceholderAndLoopGoesOn ==
    /\ [](RecordFailed => GivenUpWithPlaceholder)
    /\ [][(RecordFailed /\ pc = "dump") => LoopGoesOn]_vars

\* C8 witness: the second email, which has an id, has failed (its JSON
\* object was rejected by the schema) and its placeholder is about to be
\* written after the record of the first email.
C8_Witness ==
    /\ email_index = 1
    /\ last_outcome = "validation_error"
    /\ pc = "dump"
    /\ emails[2].id = E2
    /\ results[2] = Placeholder(emails[2])

\* A step that makes an upstream call for the current email.
UpstreamCallMade == attempt' = attempt + 1

\* C9: at most 3 upstream calls per email; a further call only after a
\* rate-limit or timeout failure of the previous one; a schema failure, a
\* malformed body or another failure ends the email at once; and the third
\* transient failure gives the email up as a record failure.
C9_AtMostThreeAttemptsRetryOnlyTransient ==
    /\ [](attempt <= 3)
    /\ [][UpstreamCallMade =>
              /\ attempt < 3
              /\ attempt >= 1 => last_outcome \in { "rate_limit", "timeout" }]_vars
    /\ [](last_outcome \in { "validation_error", "json_decode_error", "exception" }
              => GivenUpWithPlaceholder)
    /\ []((attempt = 3 /\ last_outcome \in { "rate_limit", "timeout" })
              => GivenUpWithPlaceholder)

\* C9 witness: the third call for an email has failed with a rate limit or
\* a timeout and the email has been given up.
C9_Witness ==
    /\ attempt = 3
    /\ last_outcome \in { "rate_limit", "timeout" }
    /\ pc = "open"
    /\ results[email_index + 1] = Placeholder(emails[email_index + 1])

---------------------------------------------------------------------------
(* Properties of the validation in process_email (Spec) *)

\* An attempt has parsed a JSON object and handed it to the schema.
Validated == last_outcome \in { "validation_error", "returned" }

\* A field that is present and not null.
Given(data, field) == data[field] \notin { None, Missing }

\* The faults of a parsed object: no id, a product line or an incoterm
\* outside its closed set (the incoterm compared in upper case), a weight
\* or a volume that is no number.
ListedFault(data) ==
    \/ ~Given(data, "id")
    \/ Given(data, "product_line") /\ data.product_line \notin ProductLines
    \/ Given(data, "incoterm") /\ Upper(data.incoterm) \notin Incoterms
    \/ \E field \in { "cargo_weight_kg", "cargo_cbm" } :
           /\ Given(data, field)
           /\ ~IsJNum(data[field])
           /\ ~IsNumericString(data[field])

\* The faults of a parsed object in its other fields: an is_dangerous that
\* is present and no boolean (null included), a port code or name that is
\* a number.
OtherTypeFault(data) ==
    \/ data.is_dangerous \notin { Missing, PyTrue, PyFalse }
    \/ \E field \in { "origin_port_code", "origin_port_name",
                      "destination_port_code", "destination_port_name" } :
           Given(data, field) /\ IsJNum(data[field])

\* The record appended for the current email.
CurrentRecord == results[email_index + 1]

PrefixedIgnoringCase(codes, prefix) ==
    { i \in 1..Len(codes) :
          /\ Truthy(prefix)
          /\ Len(codes[i]) >= 2
          /\ Upper(SubSeq(codes[i], 1, 2)) = Upper(prefix) }

\* C12: the country-prefix filter ignores the letter case of the prefix and
\* of the candidate codes: when some candidate has the preferred prefix in
\* any letter case, the first such candidate is returned.
C12_PrefixFilterIgnoresCase ==
    (call.op = "find_port_code"
        /\ PrefixedIgnoringCase(CallCandidates, call.country_prefix) # {}) =>
        call.result =
            CallCandidates[Least(PrefixedIgnoringCase(CallCandidates,
                                                      call.country_prefix))]

\* The fields of a record other than the two port codes.
PassThroughFields ==
    { "id", "product_line", "origin_port_name", "destination_port_name",
      "incoterm", "cargo_weight_kg", "cargo_cbm", "is_dangerous" }

\* C13: post_process_result changes only origin_port_code and
\* destination_port_code: every other field of the record has the value it
\* had before, the record has the same fields, and the call leaves the
\* reference list and the four indexes as they were.
C13_OnlyPortCodesChange ==
    /\ [](call.op = "post_process_result" =>
              /\ DOMAIN call.after = DOMAIN call.before
              /\ \A field \in PassThroughFields :
                     call.after[field] = call.before[field])
    /\ [][(call'.op = "post_process_result" /\ call.op = "none") =>
              buildVars' = buildVars]_vars

\* C13 witness: a call that replaced both port codes of a record whose
\* other fields are set (incoterm, weight, volume, the dangerous flag).
C13_Witness ==
    /\ call.op = "post_process_result"
    /\ call.before.origin_port_code = ZZZ
    /\ call.after.origin_port_code = INM
    /\ call.before.destination_port_code = ZZZ
    /\ call.after.destination_port_code = None
    /\ call.after.incoterm = FOB
    /\ call.after.cargo_weight_kg = JNum(12)
    /\ call.after.is_dangerous = PyTrue

\* A weight or volume of a record: null, or a number that is not negative.
NullOrNotNegative(v) == v = None \/ (IsJNum(v) /\ v[2] >= 0)

\* C14: every record in the results and in the output file has a
\* cargo_weight_kg that is null or >= 0 and a cargo_cbm that is null or
\* >= 0: a negative weight or volume of the upstream model never gets there.
C14_NoNegativeWeightOrVolume ==
    \A records \in { results, output_file.records } :
        \A j \in 1..Len(records) :
            /\ NullOrNotNegative(records[j].cargo_weight_kg)
            /\ NullOrNotNegative(records[j].cargo_cbm)

---------------------------------------------------------------------------
(* Properties of the output file of a killed run (SpecKill) *)

\* The records of the emails whose iteration, write included, has finished.
FlushedRecords == SubSeq(results, 1, email_index)

\* C15: when the run is killed after k emails have been processed and
\* written out, the output file holds the records of those k emails, in
\* input order: it never holds fewer records than an earlier write left.
C15_KilledRunKeepsFlushedRecords ==
    pc = "killed" =>
        /\ Len(output_file.records) >= email_index
        /\ SubSeq(output_file.records, 1, email_index) = FlushedRecords

---------------------------------------------------------------------------
(* Properties of the code lists of create_port_mapping (SpecBuild) *)

\* C16: after any prefix of the reference list has been consumed, every
\* code listed under a key k of the exact index is also listed under the
\* key normalize_port_name(k) of the normalized index.
C16_ExactCodesInNormalizedIndex ==
    \A k \in DOMAIN name_to_all_codes :
        \A i \in 1..Len(name_to_all_codes[k]) :
            /\ normalize_port_name(k) \in DOMAIN normalized_to_all_codes
            /\ InList(name_to_all_codes[k][i],
                      normalized_to_all_codes[normalize_port_name(k)])

\* C16 witness: two exact keys with different codes share one normalized
\* key, which differs from one of them and lists both codes.
C16_Witness ==
    \E k1 \in DOMAIN name_to_all_codes, k2 \in DOMAIN name_to_all_codes :
        /\ k1 # k2
        /\ normalize_port_name(k1) = normalize_port_name(k2)
        /\ normalize_port_name(k1) # k1
        /\ name_to_all_codes[k1] # name_to_all_codes[k2]
        /\ Len(normalized_to_all_codes[normalize_port_name(k1)]) = 2

\* The two indexes of code lists, by name.
CodeLists(which) ==
    IF which = "exact" THEN name_to_all_codes ELSE normalized_to_all_codes

\* The key a row is registered under in the index of that name.
RowKey(item, which) ==
    IF which = "exact" THEN Upper(RowName(item))
    ELSE normalize_port_name(RowName(item))

\* The positions of the consumed rows that register the code under the key.
RegisteringRows(which, key, code) ==
    { i \in 1..Len(port_codes_data) :
          /\ RowIndexed(port_codes_data[i])
          /\ RowCode(port_codes_data[i]) = code
          /\ RowKey(port_codes_data[i], which) = key }

FirstRegisteringRow(which, key, code) ==
    CHOOSE i \in RegisteringRows(which, key, code) :
        \A j \in RegisteringRows(which, key, code) : i <= j

\* C17: after any prefix of the reference list has been consumed, every
\* code list of both indexes has no duplicate and is in the order of first
\* appearance: of two codes under one key, the one listed first was first
\* registered under that key by an earlier row.
C17_ListsDistinctInFirstSeenOrder ==
    \A which \in { "exact", "normalized" } :
        \A key \in DOMAIN CodeLists(which) :
            LET list == CodeLists(which)[key]
            IN  /\ list # << >>
                /\ \A p \in 1..Len(list) :
                       RegisteringRows(which, key, list[p]) # {}
                /\ \A p \in 1..Len(list), q \in 1..Len(list) :
                       p < q =>
                           /\ list[p] # list[q]
                           /\ FirstRegisteringRow(which, key, list[p])
                                  < FirstRegisteringRow(which, key, list[q])

\* C17 witness: three rows registered two codes under one normalized key,
\* the first code twice, and the list holds the two codes in that order.
C17_Witness ==
    /\ build_status = "returned"
    /\ Len(port_codes_data) = 3
    /\ \E key \in DOMAIN normalized_to_all_codes :
           /\ normalized_to_all_codes[key] = << KRP, INM >>
           /\ RegisteringRows("normalized", key, KRP) = { 1, 3 }
           /\ RegisteringRows("normalized", key, INM) = { 2 }

---------------------------------------------------------------------------
(* Properties of the loop of main (SpecFair) *)

\* The id of the record for an email: the email's id, null when it has none.
IdOf(email) == IF email.id = Missing THEN None ELSE email.id

\* The number of records in the results where main is: one per finished
\* email, and one more while the record of the current email is written.
RecordsExpected == IF pc \in { "open", "dump" } THEN email_index + 1 ELSE email_index

\* One record per handled email, in input order, each with its email's id.
OneRecordPerEmail ==
    /\ email_index <= Len(emails)
    /\ Len(results) = RecordsExpected
    /\ Len(results) <= Len(emails)
    /\ \A j \in 1..Len(results) : results[j].id = IdOf(emails[j])

\* main has returned: the output file holds one record per input email.
Finished ==
    /\ pc = "done"
    /\ email_index = Len(emails)
    /\ Len(results) = Len(emails)
    /\ output_file = [state |-> "written", records |-> results]

\* C18: at the end of every iteration i, whatever the outcomes, the results
\* hold i records and record j has the id of email j; no email takes more
\* than 3 upstream calls; and every run ends with one record per input
\* email, in input order, in the output file.
C18_OneRecordPerEmailAndTermination ==
    /\ [](OneRecordPerEmail /\ attempt <= 3)
    /\ [][email_index' # email_index =>
              /\ email_index' = email_index + 1
              /\ Len(results') = email_index'
              /\ results' = results]_vars
    /\ [](pc = "done" => Finished)
    /\ <>Finished

\* C18 witness: main has returned on two emails, the first accepted (its
\* record has the incoterm "FOB") and the second, with no id, failed (its
\* record is the placeholder), and the file holds the two records in order.
C18_Witness ==
    /\ Finished
    /\ Len(emails) = 2
    /\ emails[1].id = E1
    /\ results[1].id = E1
    /\ results[1].incoterm = FOB
    /\ emails[2].id = Missing
    /\ results[2] = Placeholder(emails[2])
    /\ Len(output_file.records) = 2

============================================================================
